---- MODULE Spec2Model ----
(***************************************************************************)
(* Task-Management API: the task handlers (controller -> use case ->       *)
(* repository -> collection) and user registration (use case ->            *)
(* repository -> collection).                                              *)
(*                                                                         *)
(* The document store is a map from ObjectID to document.  A task request  *)
(* is received, handled by its handler in one step, and answered; the      *)
(* wall clock advances by one with every answered request, and every       *)
(* time.Now() of one request reads the same instant.  Register is one step *)
(* per call in SpecRegister and one step per repository round trip in      *)
(* SpecRegisterConc.  SpecUsers adds UpdateUser and Login, one call at a   *)
(* time; SpecAuth is the token service and the authentication gate, with   *)
(* a clock that counts fractions of a second.                              *)
(***************************************************************************)
EXTENDS Integers, Sequences, FiniteSets, TLC

VARIABLES
    tasks,      \* the "tasks" collection: ObjectID -> Task document
    nextTaskID, \* the next ObjectID the driver generates for a task
    now,        \* time.Now()
    pc,         \* the task API: "idle", "received" or "answered"
    req,        \* the request being served: handler, caller id, path parameter, body
    resp,       \* its answer: HTTP status, error, created id, repository calls made
    before,     \* history: the "tasks" collection when the request being served arrived
    creator,    \* history: ObjectID of a task -> caller id of the request that created it
    users,      \* the "users" collection: ObjectID -> User document
    nextUserID, \* the next ObjectID the driver generates for a user
    reg,        \* the Register calls: position and locals of each
    issued,     \* the token GenerateToken returned last, and what it was asked for
    call,       \* the call being made to the identity use case, the token service or the gate
    ret,        \* what that call returned
    upd         \* the concurrent UpdateTask calls: position and locals of each

vars == <<tasks, nextTaskID, now, pc, req, resp, before, creator, users, nextUserID, reg,
          issued, call, ret, upd>>

taskVars == <<tasks, nextTaskID, now, pc, req, resp, before, creator, upd>>
userVars == <<users, nextUserID, reg>>
authVars == <<issued, call, ret>>

----------------------------------------------------------------------------
(* Bounds *)

MaxTime == 4        \* the clock runs from 1 to MaxTime
MaxTasks == 2       \* ObjectIDs the driver generates for tasks
MaxCalls == 3       \* Register calls

----------------------------------------------------------------------------
(* Domain *)

StatusPending == "pending"
StatusInProgress == "in_progress"
StatusCompleted == "completed"

Statuses == {StatusPending, StatusInProgress, StatusCompleted}

\* the zero time.Time, earlier than every clock reading
ZeroTime == 0

\* the zero ObjectID, what an absent user_id decodes to
NilObjectID == "000000000000000000000000"

\* hex strings of the identities that send requests
UserIDs == {"u1", "u2"}

\* a caller id ObjectIDFromHex rejects
BadHex == "zz"

\* a path parameter ObjectIDFromHex rejects
BadParam == -1

\* no "user_id" key in the request context
NoUserID == "absent"

\* a body ShouldBindJSON rejects
Malformed == [malformed |-> TRUE]

TaskIDs == 1..MaxTasks

\* error values
NoErr == "nil"
ErrTitle == "task title is required"
ErrDue == "due date cannot be in the past"
ErrCompleted == "cannot change status of completed task"
ErrNoDocToUpdate == "no document found to update"
ErrNoDocuments == "mongo: no documents in result"
ErrStore == "store error"
Panic == "panic: nil pointer dereference"

\* status strings a client sends
BodyStatuses == Statuses \cup {"", "archived"}

\* the Task a JSON body decodes to at time t: due an instant before, at
\* or after t, no created_at; id is set by the handler or the store,
\* updated_at by the repository
Bodies(t) ==
    [title : {"", "T"},
     due : {t - 1, t, t + 1},
     status : BodyStatuses,
     userID : UserIDs \cup {NilObjectID},
     createdAt : {ZeroTime}]

----------------------------------------------------------------------------
(* Repository: taskRepository over the collection *)

\* the document written for a task whose UpdatedAt the repository set to t
Stored(task, t) ==
    [title |-> task.title, due |-> task.due, status |-> task.status,
     userID |-> task.userID, createdAt |-> task.createdAt, updatedAt |-> t]

\* Create: stamps created_at and updated_at, inserts, returns the task
\* with the generated id
taskRepository_Create(store, nid, task, t, fault) ==
    IF fault = "InsertOne"
    THEN [err |-> ErrStore, store |-> store, nid |-> nid, id |-> 0]
    ELSE [err |-> NoErr,
          store |-> store @@ (nid :> Stored([task EXCEPT !.createdAt = t], t)),
          nid |-> nid + 1,
          id |-> nid]

\* GetByID: (nil, nil) when no document matches
taskRepository_GetByID(store, id, fault) ==
    IF fault = "FindOne"
    THEN [err |-> ErrStore, found |-> FALSE]
    ELSE [err |-> NoErr, found |-> id \in DOMAIN store]

\* Update: $set of the whole task on the document with its id
taskRepository_Update(store, id, task, t, fault) ==
    IF fault = "UpdateOne"
    THEN [err |-> ErrStore, store |-> store]
    ELSE IF id \notin DOMAIN store
    THEN [err |-> ErrNoDocToUpdate, store |-> store]
    ELSE [err |-> NoErr,
          store |-> [store EXCEPT ![id] = Stored(task, t)]]

\* Delete: ErrNoDocuments when nothing was deleted
taskRepository_Delete(store, id, fault) ==
    IF fault = "DeleteOne"
    THEN [err |-> ErrStore, store |-> store]
    ELSE IF id \notin DOMAIN store
    THEN [err |-> ErrNoDocuments, store |-> store]
    ELSE [err |-> NoErr,
          store |-> [i \in DOMAIN store \ {id} |-> store[i]]]

\* every task returned in place of the caller's
taskRepository_GetByUserID_All(store, userID, fault) ==
    IF fault = "Find"
    THEN [err |-> ErrStore, tasks |-> <<>>]
    ELSE [err |-> NoErr, tasks |-> store]

\* GetByUserID: Find with {"user_id": userID}
taskRepository_GetByUserID(store, userID, fault) ==
    IF fault = "Find"
    THEN [err |-> ErrStore, tasks |-> <<>>]
    ELSE [err |-> NoErr,
          tasks |-> [i \in {j \in DOMAIN store : store[j].userID = userID} |-> store[i]]]

\* GetAll: Find with {}
taskRepository_GetAll(store, fault) ==
    IF fault = "Find"
    THEN [err |-> ErrStore, tasks |-> <<>>]
    ELSE [err |-> NoErr, tasks |-> store]

----------------------------------------------------------------------------
(* Use case: taskUseCase *)

\* the title check left out
TitleMissing_Skipped(task) == FALSE

\* task.Title == ""
TitleMissing(task) == task.title = ""

\* !task.DueDate.After(time.Now()) in place of Before
DueBefore_NotAfter(task, t) == task.due <= t

\* task.DueDate.Before(time.Now())
DueBefore(task, t) == task.due < t

\* the guard left out
CompletedGuard_Missing(existing, task) == FALSE

\* the guard rejecting every status change
CompletedGuard_AnyChange(existing, task) == existing.status # task.status

\* the guard looking at the incoming status alone
CompletedGuard_AnyExisting(existing, task) == task.status # StatusCompleted

\* existingTask.Status == StatusCompleted && task.Status != StatusCompleted
CompletedGuard(existing, task) ==
    existing.status = StatusCompleted /\ task.status # StatusCompleted

\* the assignment left out: the caller's status is kept
InitialStatus_Kept(task) == task.status

\* task.Status = StatusPending
InitialStatus(task) == StatusPending

\* a repository call: the method and what it was given
Call(fn, arg) == [fn |-> fn, arg |-> arg]

\* the methods called in a sequence of repository calls
Called(calls) == {calls[i].fn : i \in DOMAIN calls}

taskUseCase_CreateTask(store, nid, task, t, fault) ==
    IF TitleMissing(task)
    THEN [err |-> ErrTitle, store |-> store, nid |-> nid, id |-> 0, calls |-> <<>>]
    ELSE IF DueBefore(task, t)
    THEN [err |-> ErrDue, store |-> store, nid |-> nid, id |-> 0, calls |-> <<>>]
    ELSE LET pending == [task EXCEPT !.status = InitialStatus(task)] IN
         taskRepository_Create(store, nid, pending, t, fault)
         @@ [calls |-> <<Call("Create", pending)>>]

taskUseCase_UpdateTask(store, id, task, t, fault) ==
    IF TitleMissing(task)
    THEN [err |-> ErrTitle, store |-> store, calls |-> <<>>]
    ELSE IF DueBefore(task, t)
    THEN [err |-> ErrDue, store |-> store, calls |-> <<>>]
    ELSE LET got == taskRepository_GetByID(store, id, fault) IN
         IF got.err # NoErr
         THEN [err |-> got.err, store |-> store, calls |-> <<Call("GetByID", id)>>]
         ELSE IF ~got.found
         THEN [err |-> Panic, store |-> store, calls |-> <<Call("GetByID", id)>>]
         ELSE IF CompletedGuard(store[id], task)
         THEN [err |-> ErrCompleted, store |-> store, calls |-> <<Call("GetByID", id)>>]
         ELSE taskRepository_Update(store, id, task, t, fault)
              @@ [calls |-> <<Call("GetByID", id), Call("Update", task)>>]

taskUseCase_DeleteTask(store, id, fault) ==
    taskRepository_Delete(store, id, fault) @@ [calls |-> <<Call("Delete", id)>>]

\* a nil *Task
NilTask == [nil |-> TRUE]

\* GetTaskByID returns what the repository returns
taskUseCase_GetTaskByID(store, id, fault) ==
    LET got == taskRepository_GetByID(store, id, fault) IN
    [err |-> got.err, data |-> IF got.found THEN store[id] ELSE NilTask,
     calls |-> <<Call("GetByID", id)>>]

taskUseCase_GetTasksByUserID(store, userID, fault) ==
    LET r == taskRepository_GetByUserID(store, userID, fault) IN
    [err |-> r.err, data |-> r.tasks, calls |-> <<Call("GetByUserID", userID)>>]

taskUseCase_GetAllTasks(store, fault) ==
    LET r == taskRepository_GetAll(store, fault) IN
    [err |-> r.err, data |-> r.tasks, calls |-> <<Call("GetAll", "")>>]

----------------------------------------------------------------------------
(* Controller: TaskControllerImpl *)

ErrTaskNotFound == "task not found"

\* the HTTP status GetTaskByID answers a use-case result with
GetTaskStatusCode(err) ==
    IF err = NoErr THEN 200
    ELSE IF err = ErrTaskNotFound THEN 404
    ELSE 500

\* the HTTP status the list handlers answer a use-case result with
ListStatusCode(err) == IF err = NoErr THEN 200 ELSE 500

\* the HTTP status the task handlers answer a use-case result with
TaskStatusCode(err, okCode) ==
    IF err = NoErr THEN okCode
    ELSE IF err = Panic THEN 500
    ELSE 400

\* the answer of a handler that returns before it reaches the use case
Early(code, msg) ==
    [code |-> code, err |-> msg, id |-> 0, calls |-> <<>>, fault |-> "none"]

\* the answer to a use-case result; fault is the collection method that
\* was set to fail while the request was handled
Answer(r, okCode, id, fault) ==
    [code |-> TaskStatusCode(r.err, okCode), err |-> r.err, id |-> id,
     calls |-> r.calls, fault |-> fault]

\* POST /api/tasks
CreateTask(fault) ==
    /\ pc = "received" /\ req.op = "CreateTask"
    /\ pc' = "answered"
    /\ UNCHANGED <<upd, now, req, before, userVars, authVars>>
    /\ IF req.caller = NoUserID
       THEN /\ resp' = Early(401, "unauthorized")
            /\ UNCHANGED <<tasks, nextTaskID, creator>>
       ELSE IF req.body = Malformed
       THEN /\ resp' = Early(400, "bind")
            /\ UNCHANGED <<tasks, nextTaskID, creator>>
       ELSE IF req.caller = BadHex
       THEN /\ resp' = Early(400, "Invalid user ID")
            /\ UNCHANGED <<tasks, nextTaskID, creator>>
       ELSE LET r == taskUseCase_CreateTask(tasks, nextTaskID,
                         [req.body EXCEPT !.userID = req.caller], now, fault) IN
            /\ tasks' = r.store
            /\ nextTaskID' = r.nid
            /\ creator' = IF r.err = NoErr THEN creator @@ (r.id :> req.caller) ELSE creator
            /\ resp' = Answer(r, 201, r.id, fault)

\* PUT /api/tasks/:id
UpdateTask(fault) ==
    /\ pc = "received" /\ req.op = "UpdateTask"
    /\ pc' = "answered"
    /\ UNCHANGED <<upd, now, req, before, userVars, authVars, nextTaskID, creator>>
    /\ IF req.body = Malformed
       THEN /\ resp' = Early(400, "bind")
            /\ UNCHANGED tasks
       ELSE IF req.param = BadParam
       THEN /\ resp' = Early(400, "Invalid task ID")
            /\ UNCHANGED tasks
       ELSE LET r == taskUseCase_UpdateTask(tasks, req.param, req.body, now, fault) IN
            /\ tasks' = r.store
            /\ resp' = Answer(r, 200, 0, fault)

\* DELETE /api/tasks/:id
DeleteTask(fault) ==
    /\ pc = "received" /\ req.op = "DeleteTask"
    /\ pc' = "answered"
    /\ UNCHANGED <<upd, now, req, before, userVars, authVars, nextTaskID, creator>>
    /\ IF req.param = BadParam
       THEN /\ resp' = Early(400, "Invalid task ID")
            /\ UNCHANGED tasks
       ELSE LET r == taskUseCase_DeleteTask(tasks, req.param, fault) IN
            /\ tasks' = r.store
            /\ resp' = Answer(r, 200, 0, fault)

\* the answer of a reading handler: the status and the data sent
Read(r, code, fault) ==
    [code |-> code, err |-> r.err, id |-> 0, calls |-> r.calls, fault |-> fault,
     data |-> r.data]

\* GET /api/tasks/:id
GetTaskByID(fault) ==
    /\ pc = "received" /\ req.op = "GetTaskByID"
    /\ pc' = "answered"
    /\ UNCHANGED <<upd, tasks, nextTaskID, creator, now, req, before, userVars, authVars>>
    /\ IF req.param = BadParam
       THEN resp' = Early(400, "Invalid task ID")
       ELSE LET r == taskUseCase_GetTaskByID(tasks, req.param, fault) IN
            resp' = Read(r, GetTaskStatusCode(r.err), fault)

\* GET /api/tasks
GetTasksByUserID(fault) ==
    /\ pc = "received" /\ req.op = "GetTasksByUserID"
    /\ pc' = "answered"
    /\ UNCHANGED <<upd, tasks, nextTaskID, creator, now, req, before, userVars, authVars>>
    /\ IF req.caller = NoUserID
       THEN resp' = Early(401, "unauthorized")
       ELSE IF req.caller = BadHex
       THEN resp' = Early(400, "Invalid user ID")
       ELSE LET r == taskUseCase_GetTasksByUserID(tasks, req.caller, fault) IN
            resp' = Read(r, ListStatusCode(r.err), fault)

\* GET /api/admin/tasks
GetAllTasks(fault) ==
    /\ pc = "received" /\ req.op = "GetAllTasks"
    /\ pc' = "answered"
    /\ UNCHANGED <<upd, tasks, nextTaskID, creator, now, req, before, userVars, authVars>>
    /\ LET r == taskUseCase_GetAllTasks(tasks, fault) IN
       resp' = Read(r, ListStatusCode(r.err), fault)

----------------------------------------------------------------------------
(* The task API *)

NoReq == [op |-> "none", caller |-> NoUserID, param |-> 0, body |-> Malformed]

\* the Register calls
Calls == 1..MaxCalls

\* the email lookup of a Register call has not been made
NoLookup == [err |-> "none", found |-> FALSE]

\* a Register call that has not arrived
NoCall == [pc |-> "idle", user |-> Malformed, err |-> NoErr, code |-> 0,
           id |-> 0, calls |-> <<>>, body |-> Malformed, lookup |-> NoLookup]

\* no call is being made
NoUserCall == [op |-> "none"]

MaxUpdates == 2     \* concurrent UpdateTask calls

\* the concurrent UpdateTask calls
Updates == 1..MaxUpdates

\* an UpdateTask call that has not started
NoUpdate == [pc |-> "idle", id |-> 0, body |-> Malformed, seen |-> "", prior |-> "",
             err |-> NoErr, calls |-> <<>>]

\* a string that is not a compact JWT
Text(chars) == [kind |-> "text", text |-> chars]

\* no token: the empty string
NoToken == Text("")

\* GenerateToken has returned no token yet
NoIssue == [token |-> NoToken, uid |-> "", role |-> "", at |-> 0]

Init ==
    /\ tasks = <<>>
    /\ nextTaskID = 1
    /\ now = 1
    /\ pc = "idle"
    /\ req = NoReq
    /\ resp = Early(0, NoErr)
    /\ before = <<>>
    /\ creator = <<>>
    /\ users = <<>>
    /\ nextUserID = 1
    /\ reg = [p \in Calls |-> NoCall]
    /\ issued = NoIssue
    /\ call = NoUserCall
    /\ ret = NoUserCall
    /\ upd = [p \in Updates |-> NoUpdate]

\* the requests a client sends at time t
Requests(t) ==
    [op : {"CreateTask"}, caller : UserIDs \cup {NoUserID, BadHex},
     param : {0}, body : Bodies(t) \cup {Malformed}]
    \cup
    [op : {"UpdateTask"}, caller : {NoUserID},
     param : TaskIDs \cup {BadParam}, body : Bodies(t) \cup {Malformed}]
    \cup
    [op : {"DeleteTask"}, caller : {NoUserID},
     param : TaskIDs \cup {BadParam}, body : {Malformed}]
    \cup
    [op : {"GetTaskByID"}, caller : {NoUserID},
     param : TaskIDs \cup {BadParam}, body : {Malformed}]
    \cup
    [op : {"GetTasksByUserID"}, caller : UserIDs \cup {NoUserID, BadHex},
     param : {0}, body : {Malformed}]
    \cup
    [op : {"GetAllTasks"}, caller : {NoUserID}, param : {0}, body : {Malformed}]

\* a request arrives
Receive ==
    /\ pc = "idle"
    /\ now < MaxTime
    /\ \E r \in Requests(now) :
         /\ r.op = "CreateTask" => nextTaskID <= MaxTasks
         /\ req' = r
    /\ pc' = "received"
    /\ UNCHANGED <<upd, tasks, nextTaskID, now, resp, before, creator, userVars, authVars>>

CreateTaskReq == \E fault \in {"none", "InsertOne"} : CreateTask(fault)

UpdateTaskReq == \E fault \in {"none", "FindOne", "UpdateOne"} : UpdateTask(fault)

DeleteTaskReq == \E fault \in {"none", "DeleteOne"} : DeleteTask(fault)

GetTaskByIDReq == \E fault \in {"none", "FindOne"} : GetTaskByID(fault)

GetTasksByUserIDReq == \E fault \in {"none", "Find"} : GetTasksByUserID(fault)

GetAllTasksReq == \E fault \in {"none", "Find"} : GetAllTasks(fault)

\* the answer is sent; time has passed
Reply ==
    /\ pc = "answered"
    /\ pc' = "idle"
    /\ now' = now + 1
    /\ req' = NoReq
    /\ resp' = Early(0, NoErr)
    /\ before' = tasks
    /\ UNCHANGED <<upd, tasks, nextTaskID, creator, userVars, authVars>>

Next ==
    \/ Receive \/ CreateTaskReq \/ UpdateTaskReq \/ DeleteTaskReq
    \/ GetTaskByIDReq \/ GetTasksByUserIDReq \/ GetAllTasksReq \/ Reply

Spec == Init /\ [][Next]_vars

----------------------------------------------------------------------------
(* Properties of the task API, checked under Spec *)

\* the request being answered reached taskUseCase.CreateTask
CreateReachedUseCase ==
    /\ pc = "answered" /\ req.op = "CreateTask"
    /\ req.caller \in UserIDs /\ req.body # Malformed

\* the request being answered reached taskUseCase.UpdateTask
UpdateReachedUseCase ==
    /\ pc = "answered" /\ req.op = "UpdateTask"
    /\ req.body # Malformed /\ req.param # BadParam

\* C1: once a task's stored status is completed, it is completed in every
\* later state in which the task still exists (no step of CreateTask,
\* UpdateTask or DeleteTask takes a stored task from completed to another
\* status).
C1_CompletedIsTerminal ==
    [][\A i \in DOMAIN tasks \cap DOMAIN tasks' :
          tasks[i].status = StatusCompleted => tasks'[i].status = StatusCompleted]_vars

\* an UpdateTask away from completed was refused and the task is still completed
C1_Witness ==
    /\ UpdateReachedUseCase
    /\ req.param \in DOMAIN tasks
    /\ tasks[req.param].status = StatusCompleted
    /\ req.body.status = StatusPending
    /\ resp.code = 400

\* C2: UpdateTask with a valid title and due date on a task stored as
\* completed, with an incoming status other than completed, returns "cannot
\* change status of completed task", does not call the repository's Update and
\* leaves the collection as it was; on a task stored as pending with incoming
\* status in_progress it returns no error, calls Update and the stored task
\* is the incoming one.  (The store answers: FindOne, and for the accepted
\* case UpdateOne, do not fail.)
C2_UpdateGuard ==
    (/\ UpdateReachedUseCase
     /\ req.param \in DOMAIN before
     /\ req.body.title # "" /\ req.body.due >= now)
    =>
    /\ (/\ before[req.param].status = StatusCompleted
        /\ req.body.status # StatusCompleted
        /\ resp.fault # "FindOne")
       => /\ resp.err = ErrCompleted
          /\ "Update" \notin Called(resp.calls)
          /\ tasks = before
    /\ (/\ before[req.param].status = StatusPending
        /\ req.body.status = StatusInProgress
        /\ resp.fault = "none")
       => /\ resp.err = NoErr
          /\ Called(resp.calls) = {"GetByID", "Update"}
          /\ tasks[req.param].status = StatusInProgress
          /\ tasks[req.param].title = req.body.title
          /\ tasks[req.param].due = req.body.due

\* a completed task was asked to become in_progress and the request was
\* refused with the guard's error after the lookup alone
C2_Witness ==
    /\ UpdateReachedUseCase
    /\ req.param \in DOMAIN before
    /\ before[req.param].status = StatusCompleted
    /\ req.body.status = StatusInProgress
    /\ resp.err = ErrCompleted
    /\ Called(resp.calls) = {"GetByID"}

\* C3: every task CreateTask accepts is handed to the repository's Create
\* with status pending, whatever status the caller supplied, and is stored
\* with status pending.
C3_CreatedPending ==
    CreateReachedUseCase =>
        /\ \A k \in DOMAIN resp.calls :
              resp.calls[k].fn = "Create" => resp.calls[k].arg.status = StatusPending
        /\ resp.err = NoErr =>
              /\ Called(resp.calls) = {"Create"}
              /\ resp.id \in DOMAIN tasks
              /\ tasks[resp.id].status = StatusPending

\* a task sent with status completed was created as pending
C3_Witness ==
    /\ CreateReachedUseCase
    /\ req.body.status = StatusCompleted
    /\ resp.err = NoErr
    /\ tasks[resp.id].status = StatusPending

\* C4: the status of every stored task is one of pending, in_progress,
\* completed.
C4_StatusInDomain == \A i \in DOMAIN tasks : tasks[i].status \in Statuses

\* the order pending -> in_progress -> completed
Rank(status) ==
    CASE status = StatusPending -> 1
      [] status = StatusInProgress -> 2
      [] status = StatusCompleted -> 3

\* C5: UpdateTask rejects every status change against the order pending ->
\* in_progress -> completed, such as in_progress -> pending: an UpdateTask
\* that returned no error did not move a stored status backwards.
C5_NoBackwardChange ==
    (/\ UpdateReachedUseCase
     /\ resp.err = NoErr
     /\ before[req.param].status \in Statuses
     /\ req.body.status \in Statuses)
    => Rank(req.body.status) >= Rank(before[req.param].status)

\* C6: CreateTask and UpdateTask answer a task with an empty title with "task
\* title is required", whatever its due date, make no repository call and
\* change nothing.
C6_TitleRequired ==
    ((CreateReachedUseCase \/ UpdateReachedUseCase) /\ req.body.title = "")
    => /\ resp.err = ErrTitle
       /\ resp.code = 400
       /\ resp.calls = <<>>
       /\ tasks = before

\* a task with an empty title and a past due date got the title error
C6_Witness ==
    /\ CreateReachedUseCase \/ UpdateReachedUseCase
    /\ req.body.title = ""
    /\ req.body.due < now
    /\ resp.err = ErrTitle

\* C7 as claimed: CreateTask and UpdateTask reject every task whose due date
\* is not strictly later than the time of the call, a due date equal to the
\* call time included, and do not reject a later one for its due date.
C7_RejectsNotStrictlyLater ==
    ((CreateReachedUseCase \/ UpdateReachedUseCase) /\ req.body.title # "")
    => (resp.err = ErrDue <=> req.body.due <= now)

\* C7 as amended: CreateTask and UpdateTask reject, with no repository call,
\* every task whose due date is strictly earlier than the time of the call,
\* and do not reject for its due date a task whose due date is equal to or
\* later than the time of the call.
C7_RejectsEarlier ==
    ((CreateReachedUseCase \/ UpdateReachedUseCase) /\ req.body.title # "")
    => /\ resp.err = ErrDue <=> req.body.due < now
       /\ resp.err = ErrDue => resp.calls = <<>> /\ tasks = before

\* a task due exactly at the time of the call was created
C7_Witness ==
    /\ CreateReachedUseCase
    /\ req.body.title # ""
    /\ req.body.due = now
    /\ resp.err = NoErr
    /\ resp.id \in DOMAIN tasks

\* C8: the owning identity id of every stored task is the id of the
\* authenticated caller whose CreateTask request created it.
C8_OwnerIsCreator == \A i \in DOMAIN tasks : tasks[i].userID = creator[i]

----------------------------------------------------------------------------
(* Registration: UserControllerImpl.Register -> userUseCase.Register ->    *)
(* userRepository.  User documents carry email, password and role; the     *)
(* name and the timestamps take no part in any decision and are left out.  *)

RoleUser == "user"
RoleAdmin == "admin"

Emails == {"a@b.com", "c@d.com"}
Passwords == {"secret1"}
Salts == {1, 2}

ErrUserExists == "user already exists"
ErrUserNotFound == "user not found"
ErrHash == "hash error"

\* the RegisterRequest bodies that pass binding
RegisterRequests == [email : Emails, password : Passwords, role : {RoleUser, RoleAdmin}]

\* HashPassword: a salted one-way hash of the secret, or an error
HashPassword(secret, salt, fails) ==
    IF fails THEN [err |-> ErrHash, hash |-> ""]
    ELSE [err |-> NoErr, hash |-> ToString(<<"hash", salt, secret>>)]

\* the ids of the documents FindOne can return for {"email": email}
MatchEmail(store, email) == {i \in DOMAIN store : store[i].email = email}

\* GetByEmail: (nil, nil) when no document matches
userRepository_GetByEmail(store, email, fault) ==
    IF fault = "FindOne"
    THEN [err |-> ErrStore, found |-> FALSE]
    ELSE [err |-> NoErr, found |-> MatchEmail(store, email) # {}]

\* Create over a collection with a unique index on email
userRepository_Create_UniqueEmail(store, nid, user, fault) ==
    IF fault = "InsertOne"
    THEN [err |-> ErrStore, store |-> store, nid |-> nid, id |-> 0]
    ELSE IF \E i \in DOMAIN store : store[i].email = user.email
    THEN [err |-> "duplicate key", store |-> store, nid |-> nid, id |-> 0]
    ELSE [err |-> NoErr, store |-> store @@ (nid :> user), nid |-> nid + 1, id |-> nid]

\* Create: inserts whatever it is given and returns it with the generated id
userRepository_Create(store, nid, user, fault) ==
    IF fault = "InsertOne"
    THEN [err |-> ErrStore, store |-> store, nid |-> nid, id |-> 0]
    ELSE [err |-> NoErr, store |-> store @@ (nid :> user), nid |-> nid + 1, id |-> nid]

\* no lookup error stops Register
LookupFails_Never(got) == FALSE

\* Register returns the lookup's error unless it is "user not found"
LookupFails(got) == got.err # NoErr /\ got.err # ErrUserNotFound

\* the existence check left out
UserExists_Unchecked(got) == FALSE

\* existingUser != nil
UserExists(got) == got.found

\* the password left as the caller gave it
SetPassword_Kept(user, hashedPassword) == user

\* user.Password = hashedPassword
SetPassword(user, hashedPassword) == [user EXCEPT !.password = hashedPassword]

\* the HTTP status Register answers a use-case error with
RegisterStatusCode(err) ==
    IF err = NoErr THEN 201
    ELSE IF err = ErrUserExists THEN 409
    ELSE 500

\* the handler binds the body
RegisterBind(p, body) ==
    /\ reg[p].pc = "idle"
    /\ IF body = Malformed
       THEN reg' = [reg EXCEPT ![p] = [NoCall EXCEPT !.pc = "done", !.err = "bind",
                                                     !.code = 400]]
       ELSE reg' = [reg EXCEPT ![p] = [NoCall EXCEPT !.pc = "lookup", !.user = body,
                                                     !.body = body]]
    /\ UNCHANGED <<users, nextUserID, taskVars, authVars>>

\* Register from the result got of the email lookup up to the hashed
\* password: the check of the result, the hash
RegisterOn(p, got, salt, hashFails) ==
    /\ reg[p].pc = "lookup"
    /\ LET h == HashPassword(reg[p].user.password, salt, hashFails)
           c == [reg[p] EXCEPT !.calls = <<Call("GetByEmail", reg[p].user.email)>>,
                               !.lookup = got]
           d == [c EXCEPT !.calls = Append(@, Call("hashPassword", reg[p].user.password))] IN
       reg' = [reg EXCEPT ![p] =
                IF LookupFails(got)
                THEN [c EXCEPT !.pc = "done", !.err = got.err,
                               !.code = RegisterStatusCode(got.err)]
                ELSE IF UserExists(got)
                THEN [c EXCEPT !.pc = "done", !.err = ErrUserExists,
                               !.code = RegisterStatusCode(ErrUserExists)]
                ELSE IF h.err # NoErr
                THEN [d EXCEPT !.pc = "done", !.err = h.err,
                               !.code = RegisterStatusCode(h.err)]
                ELSE [d EXCEPT !.pc = "create", !.user = SetPassword(c.user, h.hash)]]
    /\ UNCHANGED <<users, nextUserID, taskVars, authVars>>

\* Register up to the hashed password: the email lookup, the check, the hash
RegisterLookup(p, fault, salt, hashFails) ==
    RegisterOn(p, userRepository_GetByEmail(users, reg[p].user.email, fault), salt, hashFails)

\* Register from the Create call to the handler's answer
RegisterCreate(p, fault) ==
    /\ reg[p].pc = "create"
    /\ LET r == userRepository_Create(users, nextUserID, reg[p].user, fault) IN
       /\ users' = r.store
       /\ nextUserID' = r.nid
       /\ reg' = [reg EXCEPT ![p] = [@ EXCEPT !.pc = "done", !.err = r.err,
                                              !.code = RegisterStatusCode(r.err),
                                              !.id = r.id,
                                              !.calls = Append(@, Call("Create", reg[p].user))]]
    /\ UNCHANGED <<taskVars, authVars>>

InFlight(p) == reg[p].pc \in {"lookup", "create"}

\* a Register request arrives while no other is being handled
RegisterBindSeq ==
    \E p \in Calls, body \in RegisterRequests \cup {Malformed} :
        /\ \A q \in Calls : ~InFlight(q)
        /\ RegisterBind(p, body)

\* a Register request arrives
RegisterBindAny ==
    \E p \in Calls, body \in RegisterRequests \cup {Malformed} : RegisterBind(p, body)

RegisterLookupStep ==
    \E p \in Calls, fault \in {"none", "FindOne"}, salt \in Salts, hashFails \in BOOLEAN :
        RegisterLookup(p, fault, salt, hashFails)

RegisterCreateStep ==
    \E p \in Calls, fault \in {"none", "InsertOne"} : RegisterCreate(p, fault)

NextRegister == RegisterBindSeq \/ RegisterLookupStep \/ RegisterCreateStep

SpecRegister == Init /\ [][NextRegister]_vars

NextRegisterConc == RegisterBindAny \/ RegisterLookupStep \/ RegisterCreateStep

SpecRegisterConc == Init /\ [][NextRegisterConc]_vars

\* what an implementation of the Repository interface can return from
\* GetByEmail: a user or nil, with no error, "user not found" or another
LookupResults == [err : {NoErr, ErrUserNotFound, ErrStore}, found : BOOLEAN]

\* Register over a Repository whose GetByEmail returns got
RegisterOnStep ==
    \E p \in Calls, got \in LookupResults, salt \in Salts, hashFails \in BOOLEAN :
        RegisterOn(p, got, salt, hashFails)

MaxArrivals == 2    \* Register calls over any Repository

\* the next Register request arrives while no other is being handled;
\* the calls are numbered in the order of their arrival
RegisterBindNext ==
    \E p \in Calls \cap 1..MaxArrivals, body \in RegisterRequests \cup {Malformed} :
        /\ \A q \in Calls : ~InFlight(q)
        /\ \A q \in Calls : q < p => reg[q].pc = "done"
        /\ RegisterBind(p, body)

NextRegisterOn == RegisterBindNext \/ RegisterOnStep \/ RegisterCreateStep

\* Register calls handled one at a time over any Repository
SpecRegisterOn == Init /\ [][NextRegisterOn]_vars

----------------------------------------------------------------------------
(* Properties of Register *)

\* call p has returned from userUseCase.Register
Registered(p) == reg[p].pc = "done" /\ reg[p].user # Malformed

\* C9: when Register calls are handled one at a time (SpecRegister), the
\* store never holds two identities with the same email: a call that returns
\* no error has created the one identity with its email, and a call is
\* answered "user already exists" only after the lookup alone, without a
\* Create, when an earlier call created an identity with that email; short
\* of a store or hasher failure, these are the only outcomes.
C9_UniqueEmailSequential ==
    \A e \in Emails :
        /\ Cardinality(MatchEmail(users, e)) <= 1
        /\ \A p \in Calls :
              (Registered(p) /\ reg[p].user.email = e) =>
                 /\ reg[p].err \in {NoErr, ErrUserExists, ErrStore, ErrHash}
                 /\ reg[p].err = NoErr => MatchEmail(users, e) = {reg[p].id}
                 /\ reg[p].err = ErrUserExists =>
                       /\ Called(reg[p].calls) = {"GetByEmail"}
                       /\ \E q \in Calls \ {p} :
                             /\ Registered(q)
                             /\ reg[q].err = NoErr
                             /\ reg[q].user.email = e

\* one call registered an email and a later call with that email was refused
C9_Witness ==
    \E p, q \in Calls :
        /\ Registered(p) /\ Registered(q)
        /\ reg[p].user.email = reg[q].user.email
        /\ reg[p].err = NoErr
        /\ reg[q].err = ErrUserExists
        /\ reg[q].code = 409

\* C10: Register's lookup and Create are separate repository steps and the
\* store enforces no uniqueness (SpecRegisterConc): every call that passed
\* the GetByEmail check and whose Create did not fail in the store has
\* inserted an identity of its own with its email, whatever the store held
\* by then, so two concurrent calls with one email that both pass the check
\* leave two identities with that email.
C10_CreateInsertsRegardless ==
    \A p \in Calls :
        (/\ Registered(p)
         /\ "Create" \in Called(reg[p].calls)
         /\ reg[p].err # ErrStore)
        => /\ reg[p].err = NoErr
           /\ reg[p].id \in DOMAIN users
           /\ users[reg[p].id].email = reg[p].user.email

\* two calls with the same email both passed the check and both created:
\* the store holds two identities with that email
C10_Witness ==
    \E p, q \in Calls :
        /\ p # q
        /\ Registered(p) /\ Registered(q)
        /\ reg[p].user.email = reg[q].user.email
        /\ reg[p].err = NoErr /\ reg[q].err = NoErr
        /\ Cardinality(MatchEmail(users, reg[p].user.email)) >= 2

----------------------------------------------------------------------------
(* The token service: GenerateToken and ValidateToken over golang-jwt.  A  *)
(* compact token is its header's alg, its claims and its signature         *)
(* segment; the signature segment is the characters that encode the MAC,   *)
(* the unused low bits of the last of them, and whatever follows them.     *)
(* The clock counts ticks, TicksPerSecond to the second.                   *)

TicksPerSecond == 2

\* 24 * time.Hour, in ticks
TokenTTL == 24 * 3600 * TicksPerSecond

\* time.Time.Unix(): whole seconds, the fraction dropped
Unix(t) == t \div TicksPerSecond

\* os.Getenv("JWT_SECRET")
jwtSecret == "server secret"

\* a key that is not the server's
OtherSecret == "other secret"

ErrSign == "signing error"
ErrMalformed == "token contains an invalid number of segments"
ErrSignature == "signature is invalid"
ErrExpired == "token is expired"
ErrNotYet == "token used before issued"

\* the MAC of a header and claims under a key
HMAC(key, alg, claims) == [key |-> key, alg |-> alg, claims |-> claims]

\* EncodeSegment of the signature: no padding, unused bits zero
EncodeSegment(mac) == [mac |-> mac, low |-> 0, appended |-> ""]

\* DecodeSegment of the signature: the segment is padded to a multiple of
\* four and decoded leniently, so the unused low bits of the last character
\* and one trailing "=" leave the decoded bytes unchanged
DecodeSegment(seg) ==
    IF seg.appended \in {"", "="} THEN seg.mac
    ELSE [mac |-> seg.mac, more |-> seg.appended]

\* token.SignedString(key)
SignedString(alg, claims, key) ==
    [kind |-> "jwt", alg |-> alg, claims |-> claims,
     sig |-> EncodeSegment(HMAC(key, alg, claims))]

\* the expiry check left out
Expired_Never(claims, t) == FALSE

\* StandardClaims.Valid: expired when the Unix time now is past exp
Expired(claims, t) == claims.exp # 0 /\ Unix(t) > claims.exp

\* StandardClaims.Valid: issued in the future
NotYetIssued(claims, t) == claims.iat # 0 /\ Unix(t) < claims.iat

\* the claims of a token for another subject
GenerateToken_FixedClaims(userID, role, t, signFails) ==
    IF signFails THEN [err |-> ErrSign, token |-> NoToken]
    ELSE [err |-> NoErr,
          token |-> SignedString("HS256",
                                 [uid |-> "1", role |-> "user",
                                  iat |-> Unix(t), exp |-> Unix(t + TokenTTL)],
                                 jwtSecret)]

\* GenerateToken at time t
GenerateToken(userID, role, t, signFails) ==
    IF signFails THEN [err |-> ErrSign, token |-> NoToken]
    ELSE [err |-> NoErr,
          token |-> SignedString("HS256",
                                 [uid |-> userID, role |-> role,
                                  iat |-> Unix(t), exp |-> Unix(t + TokenTTL)],
                                 jwtSecret)]

NoClaims == [uid |-> "", role |-> "", iat |-> 0, exp |-> 0]

\* ValidateToken at time t: the key function returns jwtSecret for every alg
ValidateToken(tokenString, t) ==
    IF tokenString.kind # "jwt"
    THEN [err |-> ErrMalformed, claims |-> NoClaims]
    ELSE IF DecodeSegment(tokenString.sig)
              # HMAC(jwtSecret, tokenString.alg, tokenString.claims)
    THEN [err |-> ErrSignature, claims |-> NoClaims]
    ELSE IF Expired(tokenString.claims, t)
    THEN [err |-> ErrExpired, claims |-> NoClaims]
    ELSE IF NotYetIssued(tokenString.claims, t)
    THEN [err |-> ErrNotYet, claims |-> NoClaims]
    ELSE [err |-> NoErr, claims |-> tokenString.claims]

----------------------------------------------------------------------------
(* The identity use case: userUseCase.UpdateUser and userUseCase.Login     *)
(* over userRepository, the hasher and the token service.  One call is     *)
(* made at a time; Register calls arrive between them.                     *)

MaxUsers == 2       \* ObjectIDs the driver generates for users

OtherPasswords == {"secret2"}

ErrInvalidCredentials == "invalid credentials"

\* a nil *User
NilUser == [nil |-> TRUE]

\* ObjectID.Hex()
Hex(id) == ToString(id)

\* ComparePasswords: the hash was made from this secret, under whatever salt
ComparePasswords(hashedPassword, password) ==
    \E salt \in Salts : hashedPassword = HashPassword(password, salt, FALSE).hash

\* the document "$set": user writes: every field of the struct
UserDocument(user) == [email |-> user.email, password |-> user.password, role |-> user.role]

\* Update: UpdateOne by _id with "$set": user
userRepository_Update(store, user, fault) ==
    IF fault = "UpdateOne"
    THEN [err |-> ErrStore, store |-> store]
    ELSE IF user.id \notin DOMAIN store
    THEN [err |-> ErrNoDocuments, store |-> store]
    ELSE [err |-> NoErr, store |-> [store EXCEPT ![user.id] = UserDocument(user)]]

\* userUseCase.UpdateUser
userUseCase_UpdateUser(store, user, fault, salt, hashFails) ==
    IF user.password # ""
    THEN LET h == HashPassword(user.password, salt, hashFails)
             hashed == SetPassword(user, h.hash)
             r == userRepository_Update(store, hashed, fault) IN
         IF h.err # NoErr
         THEN [err |-> h.err, store |-> store,
               calls |-> <<Call("hashPassword", user.password)>>]
         ELSE [err |-> r.err, store |-> r.store,
               calls |-> <<Call("hashPassword", user.password), Call("Update", hashed)>>]
    ELSE LET r == userRepository_Update(store, user, fault) IN
         [err |-> r.err, store |-> r.store, calls |-> <<Call("Update", user)>>]

\* the *User GetByEmail decoded document i into
Identity(store, i) == [id |-> i, email |-> store[i].email, password |-> store[i].password,
                       role |-> store[i].role]

\* what Login returns without a token
LoginFailure(err, calls) == [err |-> err, user |-> NilUser, token |-> NoToken, calls |-> calls]

\* the password check left out
PasswordMismatch_Unchecked(user, password) == FALSE

\* !u.comparePasswords(user.Password, password)
PasswordMismatch(user, password) == ~ComparePasswords(user.password, password)

\* the token issued for an administrator, whoever logs in
TokenSubject_Admin(user) == <<Hex(user.id), RoleAdmin>>

\* u.generateToken(user.ID.Hex(), user.Role)
TokenSubject(user) == <<Hex(user.id), user.role>>

\* userUseCase.Login at time t; i is the document FindOne returns when one matches
userUseCase_Login(store, email, password, t, fault, i, signFails) ==
    LET got == userRepository_GetByEmail(store, email, fault)
        lookup == <<Call("GetByEmail", email)>> IN
    IF got.err # NoErr
    THEN LoginFailure(ErrInvalidCredentials, lookup)
    ELSE IF ~got.found
    THEN LoginFailure(Panic, lookup)
    ELSE LET user == Identity(store, i)
             compare == Append(lookup, Call("comparePasswords", password))
             subject == TokenSubject(user)
             tok == GenerateToken(subject[1], subject[2], t, signFails)
             generate == Append(compare, Call("generateToken", subject)) IN
         IF PasswordMismatch(user, password)
         THEN LoginFailure(ErrInvalidCredentials, compare)
         ELSE IF tok.err # NoErr
         THEN LoginFailure(tok.err, generate)
         ELSE [err |-> NoErr, user |-> user, token |-> tok.token, calls |-> generate]

\* the User structs UpdateUser is called with
UpdateUserArgs ==
    [id : 1..MaxUsers, email : Emails, password : {""} \cup OtherPasswords,
     role : {RoleUser, RoleAdmin}]

\* a Register request arrives while no call is being made
UsersRegisterBind ==
    /\ call = NoUserCall
    /\ nextUserID <= MaxUsers
    /\ \A q \in Calls : reg[q].pc = "idle"
    /\ \E body \in RegisterRequests : RegisterBind(1, body)

\* the handler has answered
UsersRegisterReturn ==
    /\ \E p \in Calls :
         /\ reg[p].pc = "done"
         /\ reg' = [reg EXCEPT ![p] = NoCall]
    /\ UNCHANGED <<users, nextUserID, taskVars, authVars>>

\* a call of UpdateUser
UpdateUser(user, fault, salt, hashFails) ==
    /\ call = NoUserCall
    /\ \A q \in Calls : reg[q].pc = "idle"
    /\ LET r == userUseCase_UpdateUser(users, user, fault, salt, hashFails) IN
       /\ call' = [op |-> "UpdateUser", user |-> user, before |-> users]
       /\ ret' = [err |-> r.err, calls |-> r.calls]
       /\ users' = r.store
    /\ UNCHANGED <<nextUserID, reg, issued, taskVars>>

UpdateUserCall ==
    \E user \in UpdateUserArgs, fault \in {"none", "UpdateOne"}, salt \in Salts,
       hashFails \in BOOLEAN :
        UpdateUser(user, fault, salt, hashFails)

\* a call of Login
Login(email, password, fault, i, signFails) ==
    /\ call = NoUserCall
    /\ \A q \in Calls : reg[q].pc = "idle"
    /\ call' = [op |-> "Login", email |-> email, password |-> password, before |-> users,
                fault |-> fault, found |-> i]
    /\ ret' = userUseCase_Login(users, email, password, now, fault, i, signFails)
    /\ UNCHANGED <<users, nextUserID, reg, issued, taskVars>>

LoginCall ==
    \E email \in Emails, password \in Passwords \cup OtherPasswords,
       fault \in {"none", "FindOne"}, signFails \in BOOLEAN :
        \E i \in IF MatchEmail(users, email) = {} THEN {0} ELSE MatchEmail(users, email) :
            Login(email, password, fault, i, signFails)

\* the call has returned
UserReturn ==
    /\ call # NoUserCall
    /\ call' = NoUserCall
    /\ ret' = NoUserCall
    /\ UNCHANGED <<users, nextUserID, reg, issued, taskVars>>

NextUsers ==
    \/ UsersRegisterBind \/ RegisterLookupStep \/ RegisterCreateStep \/ UsersRegisterReturn
    \/ UpdateUserCall \/ LoginCall \/ UserReturn

SpecUsers == Init /\ [][NextUsers]_vars

----------------------------------------------------------------------------
(* Properties of the identity use case, checked under SpecUsers *)

\* the password field of every argument the repository's fn was called with
PasswordsPassed(calls, fn) == {calls[k].arg.password : k \in {j \in DOMAIN calls : calls[j].fn = fn}}

\* C11: when Register or UpdateUser is given a non-empty plaintext password,
\* the password of the identity it passes to the repository's Create or
\* Update is the hasher's output for that plaintext and never the plaintext;
\* when hashing fails the operation returns the hasher's error and calls
\* neither Create nor Update.
C11_StoresOnlyHashes ==
    /\ \A p \in Calls :
          (reg[p].body # Malformed /\ reg[p].body.password # "") =>
             /\ \A h \in PasswordsPassed(reg[p].calls, "Create") :
                   /\ ComparePasswords(h, reg[p].body.password)
                   /\ h # reg[p].body.password
             /\ "Create" \in Called(reg[p].calls) => reg[p].err # ErrHash
    /\ (call.op = "UpdateUser" /\ call.user.password # "") =>
          /\ \A h \in PasswordsPassed(ret.calls, "Update") :
                /\ ComparePasswords(h, call.user.password)
                /\ h # call.user.password
          /\ "Update" \in Called(ret.calls) \/ ret.err = ErrHash
          /\ ret.err = ErrHash => ("Update" \notin Called(ret.calls) /\ users = call.before)

\* UpdateUser was given a new password for an identity Register created, and
\* the store now holds its hash
C11_Witness ==
    /\ call.op = "UpdateUser"
    /\ call.user.password # ""
    /\ ret.err = NoErr
    /\ "Update" \in Called(ret.calls)
    /\ ComparePasswords(users[call.user.id].password, call.user.password)

\* C12: UpdateUser with an empty password does not call the hasher and
\* leaves the stored password hash unchanged: the identity's stored password
\* after the update is the one stored before it, so a password that verified
\* before still verifies.
C12_EmptyPasswordKeepsHash ==
    (call.op = "UpdateUser" /\ call.user.password = "" /\ ret.err = NoErr) =>
       /\ "hashPassword" \notin Called(ret.calls)
       /\ users[call.user.id].password = call.before[call.user.id].password
       /\ \A secret \in Passwords \cup OtherPasswords :
             ComparePasswords(call.before[call.user.id].password, secret)
                => ComparePasswords(users[call.user.id].password, secret)

\* the call being made is a Login whose lookup ran without a store error
LoginLookedUp == call.op = "Login" /\ call.fault = "none"

\* ... and found an identity whose stored password the given one verifies against
LoginVerified ==
    /\ LoginLookedUp
    /\ call.found # 0
    /\ ComparePasswords(call.before[call.found].password, call.password)

\* C13: Login with an email for which the store holds no identity returns
\* the error "invalid credentials", no identity and an empty token.
C13_AbsentIdentityInvalidCredentials ==
    (call.op = "Login" /\ MatchEmail(call.before, call.email) = {}) =>
       /\ ret.err = ErrInvalidCredentials
       /\ ret.user = NilUser
       /\ ret.token = NoToken

\* C14: a Login whose lookup fails in the store and a Login whose password
\* does not verify against the stored hash return the same thing: the error
\* "invalid credentials", no identity, the empty token; no token is generated.
C14_FailuresIndistinguishable ==
    (call.op = "Login"
     /\ \/ call.fault = "FindOne"
        \/ (LoginLookedUp /\ call.found # 0 /\ ~LoginVerified)) =>
       /\ ret.err = ErrInvalidCredentials
       /\ ret.user = NilUser
       /\ ret.token = NoToken
       /\ "generateToken" \notin Called(ret.calls)

\* a Login with a stored email and a password that does not verify
C14_Witness ==
    /\ LoginLookedUp /\ call.found # 0 /\ ~LoginVerified
    /\ ret.err = ErrInvalidCredentials
    /\ Called(ret.calls) = {"GetByEmail", "comparePasswords"}

\* C15: a Login with a stored identity's email and a password that verifies
\* against its stored hash returns, unless signing fails, that identity and
\* a token whose claims are exactly its id and role; a token is generated
\* only in a Login whose password verified.
C15_LoginIssuesTokenForIdentity ==
    /\ LoginVerified =>
          \/ ret.err = ErrSign /\ ret.token = NoToken /\ ret.user = NilUser
          \/ /\ ret.err = NoErr
             /\ ret.user = Identity(call.before, call.found)
             /\ ret.token.kind = "jwt"
             /\ ret.token.claims.uid = Hex(call.found)
             /\ ret.token.claims.role = call.before[call.found].role
             /\ ValidateToken(ret.token, now).err = NoErr
    /\ call.op = "Login" =>
          /\ ("generateToken" \in Called(ret.calls) \/ ret.token # NoToken) => LoginVerified
          /\ \A k \in DOMAIN ret.calls :
                ret.calls[k].fn = "generateToken" =>
                   /\ k > 1 /\ ret.calls[k - 1].fn = "comparePasswords"
                   /\ ret.calls[k].arg = <<Hex(call.found), call.before[call.found].role>>

\* a Login that returned an administrator and a token for that administrator
C15_Witness ==
    /\ LoginVerified
    /\ ret.err = NoErr
    /\ ret.user.role = RoleAdmin
    /\ ret.token.claims = [uid |-> Hex(call.found), role |-> RoleAdmin,
                           iat |-> Unix(now), exp |-> Unix(now + TokenTTL)]

----------------------------------------------------------------------------
(* The token service and the authentication gate at work: tokens are       *)
(* generated, time passes, and tokens and Authorization headers are        *)
(* presented to ValidateToken and to AuthMiddleware.  A header is the      *)
(* sequence of its words and spaces; a word is a string or a token.        *)

Space == Text(" ")
Bearer == Text("Bearer")

\* the strings a client can make of a token by altering or appending characters
Tampered(tok) ==
    {[tok EXCEPT !.claims.role = IF @ = RoleAdmin THEN RoleUser ELSE RoleAdmin],
     [tok EXCEPT !.claims.uid = "0"],
     [tok EXCEPT !.claims.exp = @ + 24 * 3600],
     [tok EXCEPT !.alg = "HS384"],
     [tok EXCEPT !.sig.mac = HMAC(OtherSecret, tok.alg, tok.claims)],
     [tok EXCEPT !.sig.low = 1],
     [tok EXCEPT !.sig.appended = "="],
     [tok EXCEPT !.sig.appended = "tampered"]}

\* tokens signed by someone who does not hold the server's secret
Forged(t) ==
    {SignedString("HS256", [uid |-> "1", role |-> RoleAdmin, iat |-> Unix(t),
                            exp |-> Unix(t + TokenTTL)], OtherSecret)}

\* a token signed with the server's secret that expired an hour ago
ExpiredToken(t) ==
    SignedString("HS256", [uid |-> "1", role |-> RoleUser, iat |-> Unix(t) - 2 * 3600,
                           exp |-> Unix(t) - 3600], jwtSecret)

\* the token strings presented at time t
Presented(t) ==
    {NoToken, Text("not a token"), issued.token, ExpiredToken(t)}
    \cup Forged(t)
    \cup (IF issued.token = NoToken THEN {} ELSE Tampered(issued.token))

\* the Authorization headers made with a token string
Headers(tok) ==
    {<<>>,
     <<tok>>,
     <<Bearer>>,
     <<Bearer, Space>>,
     <<Bearer, tok>>,
     <<Bearer, Space, tok>>,
     <<Text("bearer"), Space, tok>>,
     <<Text("Basic"), Space, tok>>,
     <<Bearer, Space, Space, tok>>,
     <<Space, Bearer, Space, tok>>,
     <<Bearer, Space, tok, Space>>,
     <<Bearer, Space, tok, Space, tok>>,
     <<Bearer, Space, tok, Text("x")>>}

\* strings.Split(s, " "): the runs of words between the spaces
RECURSIVE Split(_)
Split(s) ==
    IF s = <<>> THEN << <<>> >>
    ELSE LET rest == Split(Tail(s)) IN
         IF Head(s) = Space THEN << <<>> >> \o rest
         ELSE << <<Head(s)>> \o rest[1] >> \o Tail(rest)

\* the string a run of words is
Concat(words) ==
    IF words = <<>> THEN Text("")
    ELSE IF Len(words) = 1 THEN words[1]
    ELSE [kind |-> "words", words |-> words]

\* any scheme accepted
WellFormed_AnyScheme(parts) == Len(parts) = 2

\* !(len(parts) != 2 || parts[0] != "Bearer")
WellFormed(parts) == Len(parts) = 2 /\ parts[1] = <<Bearer>>

\* c.JSON(http.StatusUnauthorized, gin.H{"error": msg}); c.Abort(); return
Reject(msg, validated) ==
    [code |-> 401, error |-> msg, aborted |-> TRUE, next |-> FALSE,
     validated |-> validated, claims |-> NoClaims]

\* the validator's error sent to the client
RejectToken_Leaky(err, validated) == Reject(err, validated)

\* the answer to a token the validator refused
RejectToken(err, validated) == Reject("invalid token", validated)

\* AuthMiddleware(ValidateToken) on a request with this Authorization header, at time t
AuthMiddleware(authHeader, t) ==
    LET parts == Split(authHeader)
        tokenString == Concat(parts[2])
        v == ValidateToken(tokenString, t) IN
    IF authHeader = <<>>
    THEN Reject("authorization header is required", <<>>)
    ELSE IF ~WellFormed(parts)
    THEN Reject("invalid authorization header format", <<>>)
    ELSE IF v.err # NoErr
    THEN RejectToken(v.err, <<tokenString>>)
    ELSE [code |-> 0, error |-> NoErr, aborted |-> FALSE, next |-> TRUE,
          validated |-> <<tokenString>>, claims |-> v.claims]

\* a call of GenerateToken
Issue(userID, role, signFails) ==
    /\ call = NoUserCall
    /\ LET r == GenerateToken(userID, role, now, signFails) IN
       /\ call' = [op |-> "GenerateToken", uid |-> userID, role |-> role]
       /\ ret' = r
       /\ issued' = IF r.err = NoErr
                    THEN [token |-> r.token, uid |-> userID, role |-> role, at |-> now]
                    ELSE issued
    /\ UNCHANGED <<taskVars, userVars>>

IssueCall ==
    \E userID \in {Hex(i) : i \in 1..MaxUsers}, role \in {RoleUser, RoleAdmin},
       signFails \in BOOLEAN :
        Issue(userID, role, signFails)

\* a call of ValidateToken
Validate(tokenString) ==
    /\ call = NoUserCall
    /\ call' = [op |-> "ValidateToken", token |-> tokenString]
    /\ ret' = ValidateToken(tokenString, now)
    /\ UNCHANGED <<issued, taskVars, userVars>>

ValidateCall == \E tokenString \in Presented(now) : Validate(tokenString)

\* a request passes through the gate
Gate(authHeader) ==
    /\ call = NoUserCall
    /\ call' = [op |-> "AuthMiddleware", header |-> authHeader]
    /\ ret' = AuthMiddleware(authHeader, now)
    /\ UNCHANGED <<issued, taskVars, userVars>>

GateCall == \E tokenString \in Presented(now) : \E h \in Headers(tokenString) : Gate(h)

\* a tick of the clock
Tick ==
    /\ call = NoUserCall
    /\ now % TokenTTL < MaxTime
    /\ now' = now + 1
    /\ UNCHANGED <<upd, tasks, nextTaskID, pc, req, resp, before, creator, userVars, authVars>>

\* a day passes
Day ==
    /\ call = NoUserCall
    /\ now < TokenTTL
    /\ now' = now + TokenTTL
    /\ UNCHANGED <<upd, tasks, nextTaskID, pc, req, resp, before, creator, userVars, authVars>>

NextAuth == IssueCall \/ ValidateCall \/ GateCall \/ UserReturn \/ Tick \/ Day

SpecAuth == Init /\ [][NextAuth]_vars

----------------------------------------------------------------------------
(* Properties of the token service, checked under SpecAuth *)

\* ValidateToken is being called with the token GenerateToken returned last
ValidatingIssued ==
    /\ call.op = "ValidateToken"
    /\ issued.token # NoToken
    /\ call.token = issued.token

\* the token is signed with the server's secret over its own header and claims
CorrectlySigned(tok) ==
    /\ tok.kind = "jwt"
    /\ \E low \in {0, 1}, appended \in {"", "="} :
          tok.sig = [EncodeSegment(HMAC(jwtSecret, tok.alg, tok.claims))
                        EXCEPT !.low = low, !.appended = appended]

\* ValidateToken returned an error and no claims
Rejected == ret.err # NoErr /\ ret.claims = NoClaims

\* C16: for every subject id and role, validating the token GenerateToken
\* returned for them, no later than 24 hours after it was generated,
\* succeeds and returns claims with that subject id and that role.
C16_ValidateAfterGenerate ==
    (ValidatingIssued /\ now <= issued.at + TokenTTL) =>
       /\ ret.err = NoErr
       /\ ret.claims.uid = issued.uid
       /\ ret.claims.role = issued.role

\* an administrator's token validated some time after it was generated
C16_Witness ==
    /\ ValidatingIssued
    /\ now > issued.at
    /\ ret.err = NoErr
    /\ ret.claims.uid = issued.uid
    /\ ret.claims.role = RoleAdmin

\* a generated token's expires-at is its issue time plus 24 hours, and
\* ValidateToken rejects every correctly signed token whose expires-at has
\* passed
ExpiryEnforced ==
    /\ issued.token # NoToken =>
          /\ issued.token.claims.iat = Unix(issued.at)
          /\ issued.token.claims.exp = issued.token.claims.iat + 24 * 3600
    /\ (call.op = "ValidateToken" /\ CorrectlySigned(call.token)
        /\ call.token.claims.exp < Unix(now)) => Rejected

\* C17 as stated: ... so a token generated at time t is accepted at no time
\* later than t + 24h.
C17_NeverAcceptedAfterTTL ==
    /\ ExpiryEnforced
    /\ (ValidatingIssued /\ now > issued.at + TokenTTL) => Rejected

\* C17: a generated token's expires-at is its issue time plus 24 hours, in
\* whole seconds, and ValidateToken rejects every correctly signed token
\* whose expires-at has passed; so a token generated at time t is accepted
\* at no time a full second or more later than t + 24h (and at no time
\* whose whole second is later than that of t + 24h).
C17_NeverAcceptedASecondAfterTTL ==
    /\ ExpiryEnforced
    /\ (ValidatingIssued /\ now >= issued.at + TokenTTL + TicksPerSecond) => Rejected
    /\ (ValidatingIssued /\ Unix(now) > Unix(issued.at + TokenTTL)) => Rejected

\* the generated token presented more than a day and a second later, and rejected
C17_Witness ==
    /\ ValidatingIssued
    /\ now >= issued.at + TokenTTL + TicksPerSecond
    /\ ret.err = ErrExpired
    /\ ret.claims = NoClaims

\* C18: every string made from a generated token by altering or appending
\* characters is rejected by ValidateToken, and every token ValidateToken
\* accepts is signed with the server's secret.
C18_EveryChangeRejected ==
    call.op = "ValidateToken" =>
       /\ (issued.token # NoToken /\ call.token \in Tampered(issued.token)) => Rejected
       /\ ret.err = NoErr => CorrectlySigned(call.token)

----------------------------------------------------------------------------
(* Properties of the authentication gate, checked under SpecAuth *)

\* the header is "Bearer", one space, and a rest without a space
BearerHeader(h) ==
    /\ Len(h) >= 2
    /\ h[1] = Bearer
    /\ h[2] = Space
    /\ \A k \in 3..Len(h) : h[k] # Space

\* what follows "Bearer " in the header
Credential(h) == Concat(SubSeq(h, 3, Len(h)))

\* what the client sees of the gate's answer
Response(r) == [code |-> r.code, error |-> r.error]

\* C19: the gate lets the handler run exactly when the Authorization header
\* splits on a single space into two parts, "Bearer" and a second part that
\* ValidateToken accepts; an absent header is answered 401 "authorization
\* header is required", any other malformed header 401 "invalid
\* authorization header format", both without a call of the validator; and
\* every request the gate rejects is aborted, so its handler does not run.
C19_GateAdmitsOnlyValidBearer ==
    call.op = "AuthMiddleware" =>
       LET h == call.header IN
       /\ ret.next <=> (BearerHeader(h) /\ ValidateToken(Credential(h), now).err = NoErr)
       /\ h = <<>> =>
             /\ Response(ret) = [code |-> 401, error |-> "authorization header is required"]
             /\ ret.validated = <<>>
       /\ (h # <<>> /\ ~BearerHeader(h)) =>
             /\ Response(ret) = [code |-> 401, error |-> "invalid authorization header format"]
             /\ ret.validated = <<>>
       /\ BearerHeader(h) => ret.validated = <<Credential(h)>>
       /\ ret.next => (~ret.aborted /\ ret.claims = ValidateToken(Credential(h), now).claims)
       /\ ~ret.next => (ret.aborted /\ ret.code = 401 /\ ret.claims = NoClaims)

\* a request with "Bearer" and the generated token passed the gate, which
\* attached the token's claims
C19_Witness ==
    /\ call.op = "AuthMiddleware"
    /\ issued.token # NoToken
    /\ call.header = <<Bearer, Space, issued.token>>
    /\ ret.next
    /\ ret.claims.uid = issued.uid

\* C20: for a well-formed Bearer header whose token ValidateToken refuses,
\* the gate's response is 401 "invalid token" whatever the validator's
\* reason, so two such requests get the same response.
C20_RejectionIndependentOfReason ==
    (call.op = "AuthMiddleware" /\ BearerHeader(call.header)
     /\ ValidateToken(Credential(call.header), now).err # NoErr) =>
       /\ Response(ret) = [code |-> 401, error |-> "invalid token"]
       /\ ret.aborted /\ ~ret.next /\ ret.claims = NoClaims

\* the generated token, expired by now, was refused with "invalid token"
C20_Witness ==
    /\ call.op = "AuthMiddleware"
    /\ issued.token # NoToken
    /\ call.header = <<Bearer, Space, issued.token>>
    /\ ValidateToken(issued.token, now).err = ErrExpired
    /\ Response(ret) = [code |-> 401, error |-> "invalid token"]

----------------------------------------------------------------------------
(* The router: SetupRouter's routes and their middleware chains, as wired  *)
(* by main and as wired with the access guard's two gates.  The keys of a  *)
(* gin.Context are a function from key to value.  A request that passes   *)
(* its chain is handed to its handler with the keys the chain has set.     *)

\* a gin.Context on which nothing has been set
NoKeys == <<>>

\* any attached role admitted
AdminMiddleware_AnyRole(keys) ==
    IF "role" \notin DOMAIN keys
    THEN [code |-> 403, error |-> "admin access required", aborted |-> TRUE, next |-> FALSE]
    ELSE [code |-> 0, error |-> NoErr, aborted |-> FALSE, next |-> TRUE]

\* AdminMiddleware() on a request with these context keys
AdminMiddleware(keys) ==
    IF "role" \notin DOMAIN keys \/ keys["role"] # "admin"
    THEN [code |-> 403, error |-> "admin access required", aborted |-> TRUE, next |-> FALSE]
    ELSE [code |-> 0, error |-> NoErr, aborted |-> FALSE, next |-> TRUE]

PublicRoutes == {"POST /api/register", "POST /api/login"}
ProtectedRoutes ==
    {"GET /api/users", "POST /api/tasks", "GET /api/tasks", "GET /api/tasks/:id",
     "PUT /api/tasks/:id", "DELETE /api/tasks/:id"}
AdminRoutes == {"GET /api/admin/tasks"}
Routes == PublicRoutes \cup ProtectedRoutes \cup AdminRoutes

\* the handler SetupRouter registers for a route
Handler(route) ==
    CASE route = "POST /api/register" -> "Register"
      [] route = "POST /api/login" -> "Login"
      [] route = "GET /api/users" -> "GetAllUsers"
      [] route = "POST /api/tasks" -> "CreateTask"
      [] route = "GET /api/tasks" -> "GetTasksByUserID"
      [] route = "GET /api/tasks/:id" -> "GetTaskByID"
      [] route = "PUT /api/tasks/:id" -> "UpdateTask"
      [] route = "DELETE /api/tasks/:id" -> "DeleteTask"
      [] route = "GET /api/admin/tasks" -> "GetAllTasks"

\* the parameters of SetupRouter a route's group uses, in order
Chain(route) ==
    IF route \in PublicRoutes THEN <<>>
    ELSE IF route \in AdminRoutes THEN <<"authMiddleware", "adminMiddleware">>
    ELSE <<"authMiddleware">>

\* what SetupRouter is given: main's middleware1 and middleware2, or the gates
Wirings == {"main", "gates"}

\* a middleware that has let the request through with these keys
Passed(keys, authenticated, admitted) ==
    [code |-> 0, error |-> NoErr, next |-> TRUE, keys |-> keys,
     authenticated |-> authenticated, admitted |-> admitted]

\* a middleware that has aborted the request
Aborted(r, keys, authenticated) ==
    [code |-> r.code, error |-> r.error, next |-> FALSE, keys |-> keys,
     authenticated |-> authenticated, admitted |-> FALSE]

\* one middleware of a chain on a request that has come this far
Middleware(name, wiring, authHeader, sofar, t) ==
    IF wiring = "main"
    THEN Passed(sofar.keys, sofar.authenticated, sofar.admitted)
    ELSE IF name = "authMiddleware"
    THEN LET r == AuthMiddleware(authHeader, t) IN
         IF r.next
         THEN Passed(sofar.keys @@ [k \in {"claims"} |-> r.claims], TRUE, sofar.admitted)
         ELSE Aborted(r, sofar.keys, FALSE)
    ELSE LET r == AdminMiddleware(sofar.keys) IN
         IF r.next
         THEN Passed(sofar.keys, sofar.authenticated, TRUE)
         ELSE Aborted(r, sofar.keys, sofar.authenticated)

\* the chain of a route on a request
RunChain(route, wiring, authHeader, t) ==
    LET chain == Chain(route)
        arrived == Passed(NoKeys, FALSE, FALSE)
        first == IF Len(chain) >= 1
                 THEN Middleware(chain[1], wiring, authHeader, arrived, t)
                 ELSE arrived IN
    IF Len(chain) >= 2 /\ first.next
    THEN Middleware(chain[2], wiring, authHeader, first, t)
    ELSE first

\* ctx.Get("user_id")
CallerOf(keys) == IF "user_id" \in DOMAIN keys THEN keys["user_id"] ELSE NoUserID

\* GET /api/users
GetAllUsers(fault) ==
    /\ pc = "received" /\ req.op = "GetAllUsers"
    /\ pc' = "answered"
    /\ UNCHANGED <<upd, tasks, nextTaskID, creator, now, req, before, userVars, authVars>>
    /\ resp' = IF fault = "Find"
               THEN Read([err |-> ErrStore, data |-> <<>>, calls |-> <<Call("GetAll", "")>>],
                         500, fault)
               ELSE Read([err |-> NoErr, data |-> users, calls |-> <<Call("GetAll", "")>>],
                         200, fault)

GetAllUsersReq == \E fault \in {"none", "Find"} : GetAllUsers(fault)

\* the bodies sent through the router at time t
RouterBodies(t) ==
    {b \in Bodies(t) : /\ b.title = "T" /\ b.due = t + 1
                       /\ b.status \in {StatusPending, StatusCompleted}
                       /\ b.userID = NilObjectID}

\* the Authorization headers sent through the router at time t
RouterHeaders(t) ==
    {<<>>} \cup {<<Bearer, Space, tok>> : tok \in {issued.token} \cup Forged(t)}

\* a request arrives at the router and runs its route's chain
Serve(route, wiring, authHeader, param, body) ==
    /\ call = NoUserCall
    /\ pc = "idle"
    /\ now < MaxTime
    /\ Handler(route) = "CreateTask" => nextTaskID <= MaxTasks
    /\ LET r == RunChain(route, wiring, authHeader, now) IN
       /\ call' = [op |-> "Serve", route |-> route, wiring |-> wiring,
                   header |-> authHeader, at |-> now]
       /\ ret' = r
       /\ IF r.next /\ route \notin PublicRoutes
          THEN /\ pc' = "received"
               /\ req' = [op |-> Handler(route), caller |-> CallerOf(r.keys),
                          param |-> param, body |-> body]
          ELSE UNCHANGED <<pc, req>>
    /\ UNCHANGED <<upd, tasks, nextTaskID, now, resp, before, creator, userVars, issued>>

ServeRequest ==
    \E route \in Routes, wiring \in Wirings, authHeader \in RouterHeaders(now) :
        \E param \in IF Handler(route) \in {"GetTaskByID", "UpdateTask", "DeleteTask"}
                     THEN TaskIDs ELSE {0},
           body \in IF Handler(route) \in {"CreateTask", "UpdateTask"}
                    THEN RouterBodies(now) ELSE {Malformed} :
            Serve(route, wiring, authHeader, param, body)

\* the contexts AdminMiddleware is run on
AdminContexts ==
    {NoKeys}
    \cup {[k \in {"role"} |-> r] : r \in {RoleAdmin, RoleUser, "", "Admin"}}
    \cup {[k \in {"claims"} |-> [NoClaims EXCEPT !.role = RoleAdmin]]}
    \cup {[k \in {"user_id", "role"} |-> IF k = "role" THEN r ELSE "u1"] :
             r \in {RoleAdmin, RoleUser}}

\* a request reaches the admin gate with these context keys
AdminGate(keys) ==
    /\ call = NoUserCall
    /\ pc = "idle"
    /\ call' = [op |-> "AdminMiddleware", keys |-> keys]
    /\ ret' = AdminMiddleware(keys)
    /\ UNCHANGED <<issued, taskVars, userVars>>

AdminGateCall == \E keys \in AdminContexts : AdminGate(keys)

\* the request is over
RouterReturn ==
    /\ call # NoUserCall
    /\ pc = "idle"
    /\ call' = NoUserCall
    /\ ret' = NoUserCall
    /\ UNCHANGED <<issued, taskVars, userVars>>

NextRouter ==
    \/ IssueCall \/ ServeRequest \/ AdminGateCall \/ RouterReturn
    \/ CreateTaskReq \/ UpdateTaskReq \/ DeleteTaskReq
    \/ GetTaskByIDReq \/ GetTasksByUserIDReq \/ GetAllTasksReq \/ GetAllUsersReq
    \/ Reply

SpecRouter == Init /\ [][NextRouter]_vars

----------------------------------------------------------------------------
(* Properties of the router and its gates, checked under SpecRouter *)

\* the request being served came with a Bearer token ValidateToken accepted
\* when it arrived
TokenAccepted ==
    /\ call.op = "Serve"
    /\ BearerHeader(call.header)
    /\ ValidateToken(Credential(call.header), call.at).err = NoErr

\* the handler of the request being served has called its use case
UseCaseReached == call.op = "Serve" /\ pc = "answered" /\ resp.calls # <<>>

\* C21: a request for the admin-only route whose token validates with role
\* admin, passing the authentication gate and then the admin gate, reaches
\* the admin-only handler.
C21_AdminTokenReachesAdminHandler ==
    (/\ TokenAccepted
     /\ call.wiring = "gates"
     /\ call.route \in AdminRoutes
     /\ ValidateToken(Credential(call.header), call.at).claims.role = RoleAdmin)
    => ret.next

\* C22: a CreateTask request with a valid body whose token for subject s
\* the authentication gate accepted is not answered 401 "unauthorized", and
\* unless the store fails it creates a task whose owner is s.
C22_SubjectReachesCreateTask ==
    (/\ TokenAccepted
     /\ call.wiring = "gates"
     /\ call.route = "POST /api/tasks"
     /\ pc = "answered")
    => /\ ~(resp.code = 401 /\ resp.err = "unauthorized")
       /\ resp.fault = "none" =>
             /\ resp.err = NoErr
             /\ tasks[resp.id].userID = ret.keys["claims"].uid

\* C23: the admin gate lets the handler run exactly when a role is attached
\* to the request context and is "admin"; every other request is answered
\* 403 "admin access required" and aborted.
C23_AdminGateAdmitsOnlyAdmin ==
    call.op = "AdminMiddleware" =>
       /\ ret.next <=> ("role" \in DOMAIN call.keys /\ call.keys["role"] = "admin")
       /\ ret.next => ~ret.aborted
       /\ ~ret.next =>
             /\ ret.code = 403
             /\ ret.error = "admin access required"
             /\ ret.aborted

\* a request with role "user" attached was refused by the admin gate
C23_Witness ==
    /\ call.op = "AdminMiddleware"
    /\ "role" \in DOMAIN call.keys
    /\ call.keys["role"] = RoleUser
    /\ ret.code = 403
    /\ ~ret.next

\* C24: in the program main assembles, a request to a protected or admin
\* route reaches its use case only after the authentication gate accepted
\* its token, and on the admin route only after the admin gate accepted
\* its role.
C24_ProtectedRoutesGuarded ==
    (UseCaseReached /\ call.wiring = "main") =>
       /\ call.route \in ProtectedRoutes \cup AdminRoutes
       /\ TokenAccepted /\ ret.authenticated
       /\ call.route \in AdminRoutes => ret.admitted

----------------------------------------------------------------------------
(* Properties of the reading handlers and of UpdateTask, checked under Spec *)

\* the request being answered is a GetTaskByID whose path parameter is a
\* well-formed id
GetReachedUseCase ==
    /\ pc = "answered" /\ req.op = "GetTaskByID"
    /\ req.param \in TaskIDs

\* C25: GetTaskByID for a well-formed id that matches no stored task is
\* answered 404 and never 200, the store answering as it does for an
\* absent document.
C25_AbsentTaskNotFound ==
    (GetReachedUseCase /\ req.param \notin DOMAIN before /\ resp.fault = "none")
    => resp.code = 404

\* C28: UpdateTask with a valid title and due date for an id that matches
\* no stored task returns an error to its caller and leaves the collection
\* as it was.
C28_UpdateAbsentReturnsError ==
    (/\ UpdateReachedUseCase
     /\ req.body.title # "" /\ req.body.due >= now
     /\ req.param \notin DOMAIN before
     /\ resp.fault = "none")
    => /\ resp.err \notin {NoErr, Panic}
       /\ tasks = before

\* C29: an accepted UpdateTask leaves the stored created-at of the task as
\* it was.
C29_UpdateKeepsCreatedAt ==
    (UpdateReachedUseCase /\ resp.err = NoErr)
    => tasks[req.param].createdAt = before[req.param].createdAt

\* the stored tasks whose owner is the identity id
OwnedBy(store, id) == {i \in DOMAIN store : store[i].userID = id}

\* C30: GetTasksByUserID answers with exactly the stored tasks whose owner
\* is the caller id attached to the request context, none of another owner;
\* with no caller id attached it answers 401 "unauthorized" and queries
\* nothing.
C30_OwnTasksOnly ==
    (pc = "answered" /\ req.op = "GetTasksByUserID") =>
       /\ req.caller = NoUserID =>
             /\ resp.code = 401 /\ resp.err = "unauthorized"
             /\ resp.calls = <<>>
       /\ (req.caller \in UserIDs /\ resp.fault = "none") =>
             /\ resp.code = 200
             /\ Called(resp.calls) = {"GetByUserID"}
             /\ DOMAIN resp.data = OwnedBy(tasks, req.caller)
             /\ \A i \in DOMAIN resp.data : resp.data[i] = tasks[i]

\* the caller was sent its one task while another owner's task was stored
C30_Witness ==
    /\ pc = "answered" /\ req.op = "GetTasksByUserID"
    /\ req.caller \in UserIDs /\ resp.code = 200
    /\ OwnedBy(tasks, req.caller) # {}
    /\ DOMAIN tasks \ OwnedBy(tasks, req.caller) # {}
    /\ DOMAIN resp.data = OwnedBy(tasks, req.caller)

----------------------------------------------------------------------------
(* Properties of Register over any Repository, checked under SpecRegisterOn *)

\* the email lookup of call p reported no identity
ReportsNone(got) == ~got.found /\ got.err \in {NoErr, ErrUserNotFound}

\* call p has got the result of its email lookup
LookedUp(p) == reg[p].lookup # NoLookup

\* C26: Register goes on to hash the password and to Create only when the
\* email lookup reported no identity, by an absent result or by the error
\* "user not found", and then it does hash; a lookup error other than
\* "user not found" is returned unchanged, without a call of the hasher or
\* of Create and with nothing stored.
C26_LookupDecides ==
    \A p \in Calls :
        LookedUp(p) =>
           /\ ("hashPassword" \in Called(reg[p].calls)) <=> ReportsNone(reg[p].lookup)
           /\ "Create" \in Called(reg[p].calls) => ReportsNone(reg[p].lookup)
           /\ reg[p].lookup.err \notin {NoErr, ErrUserNotFound} =>
                 /\ reg[p].pc = "done"
                 /\ reg[p].err = reg[p].lookup.err
                 /\ Called(reg[p].calls) = {"GetByEmail"}
                 /\ reg[p].user = reg[p].body
                 /\ reg[p].id = 0

\* one call went on to Create after the lookup answered "user not found",
\* another was returned the lookup's own error after the lookup alone
C26_Witness ==
    \E p, q \in Calls :
        /\ LookedUp(p) /\ reg[p].lookup.err = ErrUserNotFound
        /\ "Create" \in Called(reg[p].calls) /\ reg[p].err = NoErr
        /\ LookedUp(q) /\ reg[q].lookup.err = ErrStore
        /\ reg[q].err = ErrStore /\ Called(reg[q].calls) = {"GetByEmail"}

----------------------------------------------------------------------------
(* Concurrent UpdateTask calls: GetByID and Update are separate round trips *)

\* the task a client creates before the updates
SeedBodies(t) ==
    {b \in Bodies(t) : b.title = "T" /\ b.due = t + 1 /\ b.status = "" /\ b.userID = "u1"}

\* the tasks the updating clients send: with or without a title, with one
\* of the three statuses
UpdateBodies(t) ==
    {b \in Bodies(t) : b.due = t + 1 /\ b.status \in Statuses /\ b.userID = NilObjectID}

\* CreateTask, handled alone
UpdateSeed(body) ==
    /\ nextTaskID <= MaxTasks
    /\ LET r == taskUseCase_CreateTask(tasks, nextTaskID, body, now, "none") IN
       /\ tasks' = r.store
       /\ nextTaskID' = r.nid
       /\ creator' = creator @@ (r.id :> body.userID)
    /\ UNCHANGED <<now, pc, req, resp, before, upd, userVars, authVars>>

\* UpdateTask up to the result of GetByID: the validation and the lookup;
\* the calls are numbered in the order they start
UpdateTaskRead(p, id, body, fault) ==
    /\ upd[p].pc = "idle"
    /\ \A q \in Updates : q < p => upd[q].pc # "idle"
    /\ LET c == [NoUpdate EXCEPT !.id = id, !.body = body]
           got == taskRepository_GetByID(tasks, id, fault)
           d == [c EXCEPT !.calls = <<Call("GetByID", id)>>] IN
       upd' = [upd EXCEPT ![p] =
                IF TitleMissing(body)
                THEN [c EXCEPT !.pc = "done", !.err = ErrTitle]
                ELSE IF DueBefore(body, now)
                THEN [c EXCEPT !.pc = "done", !.err = ErrDue]
                ELSE IF got.err # NoErr
                THEN [d EXCEPT !.pc = "done", !.err = got.err]
                ELSE IF ~got.found
                THEN [d EXCEPT !.pc = "done", !.err = Panic]
                ELSE [d EXCEPT !.pc = "read", !.seen = tasks[id].status]]
    /\ UNCHANGED <<tasks, nextTaskID, now, pc, req, resp, before, creator, userVars, authVars>>

\* UpdateTask from the result of GetByID: the guard on the status that was
\* read, then Update on the collection as it is by now
UpdateTaskWrite(p, fault) ==
    /\ upd[p].pc = "read"
    /\ IF CompletedGuard([status |-> upd[p].seen], upd[p].body)
       THEN /\ upd' = [upd EXCEPT ![p] = [@ EXCEPT !.pc = "done", !.err = ErrCompleted]]
            /\ UNCHANGED tasks
       ELSE LET r == taskRepository_Update(tasks, upd[p].id, upd[p].body, now, fault) IN
            /\ tasks' = r.store
            /\ upd' = [upd EXCEPT ![p] =
                        [@ EXCEPT !.pc = "done", !.err = r.err,
                                  !.prior = IF upd[p].id \in DOMAIN tasks
                                            THEN tasks[upd[p].id].status ELSE "",
                                  !.calls = Append(@, Call("Update", upd[p].body))]]
    /\ UNCHANGED <<nextTaskID, now, pc, req, resp, before, creator, userVars, authVars>>

UpdateSeedStep == \E body \in SeedBodies(now) : UpdateSeed(body)

UpdateTaskReadStep ==
    \E p \in Updates, id \in TaskIDs, body \in UpdateBodies(now), fault \in {"none", "FindOne"} :
        UpdateTaskRead(p, id, body, fault)

UpdateTaskWriteStep ==
    \E p \in Updates, fault \in {"none", "UpdateOne"} : UpdateTaskWrite(p, fault)

NextUpdateConc == UpdateSeedStep \/ UpdateTaskReadStep \/ UpdateTaskWriteStep

SpecUpdateConc == Init /\ [][NextUpdateConc]_vars

----------------------------------------------------------------------------
(* Properties of concurrent UpdateTask calls, checked under SpecUpdateConc *)

\* call p has replaced the stored task with its own
Wrote(p) ==
    /\ upd[p].pc = "done"
    /\ "Update" \in Called(upd[p].calls)
    /\ upd[p].err = NoErr

\* call p has finished after GetByID returned it a task
Decided(p) == upd[p].pc = "done" /\ upd[p].seen # ""

\* C27 as stated: under interleaving of UpdateTask calls no Update replaces
\* a task stored as completed by one of another status, so a task once
\* stored as completed stays completed.
C27_CompletedIsTerminalConc ==
    \A p \in Updates :
        (Wrote(p) /\ upd[p].prior = StatusCompleted) => upd[p].body.status = StatusCompleted

\* C27: under interleaving of UpdateTask calls the guard is applied to the
\* status the call's own GetByID returned: a call is refused with "cannot
\* change status of completed task", without an Update, exactly when that
\* status was completed and its incoming status is not; every other call
\* calls Update, which replaces the task whatever its status is by then.
C27_GuardOnStatusRead ==
    \A p \in Updates :
        Decided(p) =>
           /\ (upd[p].seen = StatusCompleted /\ upd[p].body.status # StatusCompleted)
              => /\ upd[p].err = ErrCompleted
                 /\ Called(upd[p].calls) = {"GetByID"}
           /\ ~(upd[p].seen = StatusCompleted /\ upd[p].body.status # StatusCompleted)
              => /\ Called(upd[p].calls) = {"GetByID", "Update"}
                 /\ upd[p].err \in {NoErr, ErrStore}
                 /\ Wrote(p) => \E q \in Updates :
                                   /\ Wrote(q) /\ upd[q].id = upd[p].id
                                   /\ tasks[upd[p].id].status = upd[q].body.status

\* a call that read the task as pending has made it in_progress after
\* another call had stored it as completed
C27_Witness ==
    \E p \in Updates :
        /\ Wrote(p)
        /\ upd[p].seen = StatusPending
        /\ upd[p].prior = StatusCompleted
        /\ upd[p].body.status = StatusInProgress
        /\ tasks[upd[p].id].status = StatusInProgress

====
